---- MODULE Spec2Model ----
(***************************************************************************)
(* Study-Coach: plan generation over the task store (routes/plans.py,      *)
(* models.py), the session date schedulers (services/planner.py,           *)
(* services/ai_planner.py) and the PDF structure analyzer                  *)
(* (services/pdf_analyzer.py).                                             *)
(*                                                                         *)
(* Calendar dates are day numbers (integers); date arithmetic with         *)
(* timedelta(days=k) is integer addition, (a - b).days is subtraction.     *)
(***************************************************************************)
EXTENDS Integers, Sequences, FiniteSets, TLC

VARIABLES
    tasks,      \* study_tasks_collection: the set of stored task documents
    reqs,       \* in-flight HTTP requests: handler, arguments, position, response
    sched,      \* one call of a scheduler: its arguments, position and result
    pdf,        \* one run of the structure analyzer: its pages, position and result
    split,      \* one call of split_content_for_study: its arguments, position and result
    plan,       \* one call of a plan assembler: its course, materials, LLM reply and result
    extr        \* one call of a topic / key-term extractor: its text, position and result

vars == <<tasks, reqs, sched, pdf, split, plan, extr>>

(***************************************************************************)
(* Bounds of the model.                                                    *)
(***************************************************************************)
MaxStart == 1
MaxSpan == 16
MaxCount == 6
ExamSlack == 8
MaxPages == 12
NumRequests == 2

(***************************************************************************)
(* Helpers standing for Python built-ins.                                  *)
(***************************************************************************)
Min(a, b) == IF a <= b THEN a ELSE b

Max(a, b) == IF a >= b THEN a ELSE b

SeqToSet(s) == {s[i] : i \in 1..Len(s)}

SetMin(S) == CHOOSE x \in S : \A y \in S : x <= y

SetMax(S) == CHOOSE x \in S : \A y \in S : x >= y

\* sorted(set(xs)) for a set of integers: the ascending sequence of its members
RECURSIVE SortedSeq(_)
SortedSeq(S) == IF S = {} THEN <<>> ELSE <<SetMin(S)>> \o SortedSeq(S \ {SetMin(S)})

\* xs[:n]
Take(s, n) == IF Len(s) <= n THEN s ELSE SubSeq(s, 1, n)

\* an optional date: None, or a date (Optional[date])
NoDate == <<>>

SomeDate(d) == <<d>>

DateOf(x) == x[1]

(***************************************************************************)
(* The state of each part when it is not running.                          *)
(***************************************************************************)
Requests == 1..NumRequests

\* a request that has not arrived.  before, deleted, conc and during record
\* history: the course's tasks when the request arrived, the tasks its
\* delete removed, the requests in flight together with it, and the
\* replacements in progress when it read the store
IdleRequest ==
    [op |-> "none", course_id |-> "none", user_id |-> "none", pc |-> "idle",
     new_tasks |-> <<>>, i |-> 0, status |-> 0, body |-> {},
     before |-> {}, deleted |-> {}, conc |-> {}, during |-> {}]

SchedIdle == [pc |-> "off"]

PdfIdle == [pc |-> "off"]

SplitIdle == [pc |-> "off"]

PlanIdle == [pc |-> "off"]

ExtrIdle == [pc |-> "off"]

(***************************************************************************)
(* The session date scheduler, shared by planner.py and ai_planner.py.     *)
(***************************************************************************)

\* exam_prep_days = min(14, (end - exam_date).days)
ExamPrepWindow == 14

ExamPrepDays(end, exam_date) == Min(ExamPrepWindow, end - exam_date)

\* early_sessions = max(1, num_sessions // 2)
EarlySessions(num_sessions) == Max(1, num_sessions \div 2)

\* early_end = max(start, exam_date - timedelta(days=exam_prep_days + 1))
EarlyEnd(start, end, exam_date) == Max(start, exam_date - (ExamPrepDays(end, exam_date) + 1))

\* for i in range(early_sessions): append start + i*early_step if it is <= early_end
RECURSIVE EarlyLoop(_, _, _, _, _)
EarlyLoop(i, early_sessions, early_start, early_step, early_end) ==
    IF i >= early_sessions THEN <<>>
    ELSE LET session_date == early_start + i * early_step
         IN  (IF session_date <= early_end THEN <<session_date>> ELSE <<>>)
             \o EarlyLoop(i + 1, early_sessions, early_start, early_step, early_end)

\* the early phase of the exam-aware policy: the dates list after the first loop
EarlyPhase(start, end, num_sessions, exam_date) ==
    LET early_sessions == EarlySessions(num_sessions)
        early_end == EarlyEnd(start, end, exam_date)
        early_days == (early_end - start) + 1
    IN  IF early_days > 0
        THEN EarlyLoop(0, early_sessions, start, Max(1, early_days \div Max(1, early_sessions)), early_end)
        ELSE <<>>

\* the prep loop without its "session_date < exam_date" test
RECURSIVE PrepLoopNoExamGuard(_, _, _, _, _, _)
PrepLoopNoExamGuard(i, prep_sessions, prep_start, prep_step, exam_date, dates) ==
    IF i >= prep_sessions THEN <<>>
    ELSE LET session_date == prep_start + i * prep_step
             add == session_date \notin SeqToSet(dates)
         IN  (IF add THEN <<session_date>> ELSE <<>>)
             \o PrepLoopNoExamGuard(i + 1, prep_sessions, prep_start, prep_step, exam_date,
                                    IF add THEN Append(dates, session_date) ELSE dates)

\* for i in range(prep_sessions): append prep_start + i*prep_step if it is
\* before the exam and not yet in dates; the result is what the loop appended
RECURSIVE PrepLoop(_, _, _, _, _, _)
PrepLoop(i, prep_sessions, prep_start, prep_step, exam_date, dates) ==
    IF i >= prep_sessions THEN <<>>
    ELSE LET session_date == prep_start + i * prep_step
             add == session_date < exam_date /\ session_date \notin SeqToSet(dates)
         IN  (IF add THEN <<session_date>> ELSE <<>>)
             \o PrepLoop(i + 1, prep_sessions, prep_start, prep_step, exam_date,
                         IF add THEN Append(dates, session_date) ELSE dates)

\* an exam-aware policy whose prep phase appends nothing
NoPrepPhase(start, end, num_sessions, exam_date) == <<>>

\* prep_start = max(dates[-1] + 3 days, exam_date - exam_prep_days) if dates
\*              else exam_date - exam_prep_days
PrepStart(dates, end, exam_date) ==
    IF dates # <<>>
    THEN Max(dates[Len(dates)] + 3, exam_date - ExamPrepDays(end, exam_date))
    ELSE exam_date - ExamPrepDays(end, exam_date)

\* the prep phase of the exam-aware policy: the dates the second loop appends
PrepPhase(start, end, num_sessions, exam_date) ==
    LET dates == EarlyPhase(start, end, num_sessions, exam_date)
        prep_sessions == num_sessions - EarlySessions(num_sessions)
        prep_start == PrepStart(dates, end, exam_date)
        prep_end == exam_date - 1
        prep_days == (prep_end - prep_start) + 1
    IN  IF prep_days > 0
        THEN PrepLoop(0, prep_sessions, prep_start, Max(1, prep_days \div Max(1, prep_sessions)), exam_date, dates)
        ELSE <<>>

\* int(total_days * (progress ** 1.5)) with progress = (i + 1) / num_sessions:
\* the floor of sqrt(total_days^2 * (i+1)^3 / num_sessions^3)
DayPosition(total_days, i, num_sessions) ==
    SetMax({k \in 0..total_days :
              k * k * num_sessions * num_sessions * num_sessions
                 <= total_days * total_days * (i + 1) * (i + 1) * (i + 1)})

\* the exponential policy: for i in range(num_sessions), the date at
\* min(day_position, total_days - 1), skipped when already present
RECURSIVE ExpLoop(_, _, _, _, _)
ExpLoop(i, num_sessions, start, total_days, dates) ==
    IF i >= num_sessions THEN dates
    ELSE LET session_date == start + Min(DayPosition(total_days, i, num_sessions), total_days - 1)
         IN  ExpLoop(i + 1, num_sessions, start, total_days,
                     IF session_date \notin SeqToSet(dates) THEN Append(dates, session_date) ELSE dates)

\* "if exam_date and num_sessions > 4"
ExamAware(num_sessions, exam_date) == exam_date # NoDate /\ num_sessions > 4

\* the dates list when the policy branch is left
PolicyDates(start, end, num_sessions, exam_date) ==
    IF ExamAware(num_sessions, exam_date)
    THEN EarlyPhase(start, end, num_sessions, DateOf(exam_date))
         \o PrepPhase(start, end, num_sessions, DateOf(exam_date))
    ELSE ExpLoop(0, num_sessions, start, (end - start) + 1, <<>>)

\* ai_planner._calculate_session_dates without its "total_days <= 1" return
AiCalculateNoShortWindowReturn(start, end, num_sessions, exam_date) ==
    Take(SortedSeq(SeqToSet(PolicyDates(start, end, num_sessions, exam_date))), num_sessions)

\* ai_planner._calculate_session_dates
AiCalculateSessionDates(start, end, num_sessions, exam_date) ==
    IF (end - start) + 1 <= 1 THEN <<start>>
    ELSE Take(SortedSeq(SeqToSet(PolicyDates(start, end, num_sessions, exam_date))), num_sessions)

\* a gap-filling loop that measures the midpoint from the later date of the pair
RECURSIVE GapFillFromLaterDate(_, _, _)
GapFillFromLaterDate(i, dates, extra_needed) ==
    IF i > Len(dates) - 1 \/ extra_needed <= 0 THEN {}
    ELSE LET gap == dates[i + 1] - dates[i]
         IN  IF gap > 2
             THEN {dates[i + 1] + (gap \div 2)} \cup GapFillFromLaterDate(i + 1, dates, extra_needed - 1)
             ELSE GapFillFromLaterDate(i + 1, dates, extra_needed)

\* the gap-filling loop of planner.py: for i in range(1, len(dates)), while
\* extra_needed > 0, append the midpoint of every gap of more than 2 days;
\* dates is the sorted list the loop indexes, the result is the set appended
RECURSIVE GapFill(_, _, _)
GapFill(i, dates, extra_needed) ==
    IF i > Len(dates) - 1 \/ extra_needed <= 0 THEN {}
    ELSE LET gap == dates[i + 1] - dates[i]
         IN  IF gap > 2
             THEN {dates[i] + (gap \div 2)} \cup GapFill(i + 1, dates, extra_needed - 1)
             ELSE GapFill(i + 1, dates, extra_needed)

\* the gap-filling loop as a list: the midpoints in the order they are appended
RECURSIVE GapFillSeq(_, _, _)
GapFillSeq(i, dates, extra_needed) ==
    IF i > Len(dates) - 1 \/ extra_needed <= 0 THEN <<>>
    ELSE LET gap == dates[i + 1] - dates[i]
         IN  IF gap > 2
             THEN <<dates[i] + (gap \div 2)>> \o GapFillSeq(i + 1, dates, extra_needed - 1)
             ELSE GapFillSeq(i + 1, dates, extra_needed)

\* planner._calculate_session_dates without the sort that follows gap-filling
PlannerCalculateNoResort(start, end, num_sessions, exam_date) ==
    IF (end - start) + 1 <= 1 THEN <<start>>
    ELSE LET dates == SortedSeq(SeqToSet(PolicyDates(start, end, num_sessions, exam_date)))
             filled == IF Len(dates) < num_sessions
                       THEN dates \o GapFillSeq(1, dates, num_sessions - Len(dates))
                       ELSE dates
         IN  Take(filled, num_sessions)

\* planner._calculate_session_dates
PlannerCalculateSessionDates(start, end, num_sessions, exam_date) ==
    IF (end - start) + 1 <= 1 THEN <<start>>
    ELSE LET dates == SortedSeq(SeqToSet(PolicyDates(start, end, num_sessions, exam_date)))
             filled == IF Len(dates) < num_sessions
                       THEN SortedSeq(SeqToSet(dates) \cup GapFill(1, dates, num_sessions - Len(dates)))
                       ELSE dates
         IN  Take(filled, num_sessions)

(***************************************************************************)
(* Scheduler calls: the arguments are drawn from the bounded sets, one     *)
(* action per scheduler applies it.                                        *)
(***************************************************************************)
\* the call for the term 2024-01-01..2024-03-01 (days 0..60) with the exam
\* on 2024-02-25 (day 55) and 10 sessions
ScenarioCall == [start |-> 0, end |-> 60, num_sessions |-> 10, exam_date |-> SomeDate(55)]

SchedInputs ==
    {[start |-> s, end |-> e, num_sessions |-> n, exam_date |-> x] :
        s \in 0..MaxStart, e \in 0..(MaxStart + MaxSpan), n \in 1..MaxCount,
        x \in {NoDate} \cup {SomeDate(d) : d \in (0 - ExamSlack)..(MaxStart + MaxSpan + ExamSlack)}}
    \cup {ScenarioCall}

\* the prep-phase dates of a call (none outside the exam-aware policy)
PrepOf(in) ==
    IF (in.end - in.start) + 1 > 1 /\ ExamAware(in.num_sessions, in.exam_date)
    THEN SeqToSet(PrepPhase(in.start, in.end, in.num_sessions, DateOf(in.exam_date)))
    ELSE {}

SchedInit ==
    /\ sched \in {[pc |-> "call", in |-> in, dates |-> <<>>, prep |-> {}] : in \in SchedInputs}
    /\ tasks = {}
    /\ reqs = [r \in Requests |-> IdleRequest]
    /\ pdf = PdfIdle
    /\ split = SplitIdle
    /\ plan = PlanIdle
    /\ extr = ExtrIdle

CallPlannerScheduler ==
    /\ sched.pc = "call"
    /\ sched' = [sched EXCEPT !.pc = "planner",
                    !.dates = PlannerCalculateSessionDates(sched.in.start, sched.in.end,
                                                          sched.in.num_sessions, sched.in.exam_date),
                    !.prep = PrepOf(sched.in)]
    /\ UNCHANGED <<tasks, reqs, pdf, split, plan, extr>>

CallAiScheduler ==
    /\ sched.pc = "call"
    /\ sched' = [sched EXCEPT !.pc = "ai",
                    !.dates = AiCalculateSessionDates(sched.in.start, sched.in.end,
                                                     sched.in.num_sessions, sched.in.exam_date),
                    !.prep = PrepOf(sched.in)]
    /\ UNCHANGED <<tasks, reqs, pdf, split, plan, extr>>

SchedNext == CallPlannerScheduler \/ CallAiScheduler

SchedSpec == SchedInit /\ [][SchedNext]_vars

(***************************************************************************)
(* Plan generation (routes/plans.py) over the task store (models.py).      *)
(***************************************************************************)

\* a banding that takes the remainder where the code takes the quotient
NumSessionsRemainder(total_days) ==
    LET banded == IF total_days <= 7 THEN Min(3, total_days)
                  ELSE IF total_days <= 30 THEN Min(8, total_days % 3)
                  ELSE IF total_days <= 60 THEN Min(12, total_days % 5)
                  ELSE Min(16, total_days % 7)
    IN  IF banded <= 0 THEN 1 ELSE banded

\* the banded session count of generate_ai_study_plan
NumSessions(total_days) ==
    LET banded == IF total_days <= 7 THEN Min(3, total_days)
                  ELSE IF total_days <= 30 THEN Min(8, total_days \div 3)
                  ELSE IF total_days <= 60 THEN Min(12, total_days \div 5)
                  ELSE Min(16, total_days \div 7)
    IN  IF banded <= 0 THEN 1 ELSE banded

Users == {"u1", "u2"}

CourseIds == {"c1", "c2"}

\* courses_collection: two courses created through create_course, which
\* stores parsed dates only; c1 is u1's, c2 is u2's
CoursesCollection(course_id) ==
    IF course_id = "c1"
    THEN [user_id |-> "u1", term_start |-> 0, term_end |-> 1, main_exam_date |-> NoDate]
    ELSE [user_id |-> "u2", term_start |-> 0, term_end |-> 0, main_exam_date |-> SomeDate(0)]

\* Course.find_by_id(course_id, user_id) finds a course
CourseFound(course_id, user_id) == CoursesCollection(course_id).user_id = user_id

\* generate_ai_study_plan: one task per scheduled date, completed = False
\* (titles and descriptions are texts no step of the handlers reads)
GenerateAiStudyPlan(course_id) ==
    LET course == CoursesCollection(course_id)
        start == course.term_start
        end == IF course.term_end < start THEN start ELSE course.term_end
        total_days == IF (end - start) + 1 <= 0 THEN 1 ELSE (end - start) + 1
        session_dates == AiCalculateSessionDates(start, end, NumSessions(total_days), course.main_exam_date)
    IN  [k \in 1..Len(session_dates) |->
            [course_id |-> course_id, date |-> session_dates[k], completed |-> FALSE]]

\* StudyTask.find_by_course
FindByCourse(collection, course_id) == {t \in collection : t.course_id = course_id}

\* delete_by_course that deletes nothing
DeleteNothing(collection, course_id) == collection

\* a delete_many whose filter matches every document
DeleteAll(collection, course_id) == {}

\* StudyTask.delete_by_course: the collection after delete_many
DeleteByCourse(collection, course_id) == {t \in collection : t.course_id # course_id}

\* StudyTask.create: the document insert_one stores; its _id is new with
\* every insert (here: request r's k-th insert)
CreateTask(r, k, t) ==
    [id |-> <<r, k>>, course_id |-> t.course_id, date |-> t.date, completed |-> t.completed]

InFlight(r) == reqs[r].pc \notin {"idle", "done"}

\* a request arrives: requests are numbered in the order of arrival; every
\* request in flight becomes concurrent with it, and it with them
Arrive(r, op, course_id, user_id, pc, status) ==
    /\ reqs[r].pc = "idle"
    /\ \A q \in Requests : q < r => reqs[q].pc # "idle"
    /\ reqs' = [q \in Requests |->
                  IF q = r
                  THEN [IdleRequest EXCEPT !.op = op, !.course_id = course_id, !.user_id = user_id,
                                           !.pc = pc, !.status = status,
                                           !.before = FindByCourse(tasks, course_id),
                                           !.conc = {p \in Requests : InFlight(p)}]
                  ELSE IF InFlight(q) THEN [reqs[q] EXCEPT !.conc = @ \cup {r}]
                  ELSE reqs[q]]

\* generate_plan, lines 47-49: Course.find_by_id, 404 when not found
GeneratePlanFindCourse(r, course_id, user_id) ==
    /\ IF CourseFound(course_id, user_id)
       THEN Arrive(r, "generate", course_id, user_id, "delete", 0)
       ELSE Arrive(r, "generate", course_id, user_id, "done", 404)
    /\ UNCHANGED <<tasks, sched, pdf, split, plan, extr>>

\* generate_plan, line 52: StudyTask.delete_by_course
GeneratePlanDelete(r) ==
    /\ reqs[r].op = "generate" /\ reqs[r].pc = "delete"
    /\ tasks' = DeleteByCourse(tasks, reqs[r].course_id)
    /\ reqs' = [reqs EXCEPT ![r].pc = "generate",
                            ![r].deleted = FindByCourse(tasks, reqs[r].course_id)]
    /\ UNCHANGED <<sched, pdf, split, plan, extr>>

\* generate_plan, line 55: generate_ai_study_plan returns the new tasks
GeneratePlanGenerate(r) ==
    /\ reqs[r].op = "generate" /\ reqs[r].pc = "generate"
    /\ reqs' = [reqs EXCEPT ![r].pc = "insert", ![r].i = 1,
                            ![r].new_tasks = GenerateAiStudyPlan(reqs[r].course_id)]
    /\ UNCHANGED <<tasks, sched, pdf, split, plan, extr>>

\* generate_plan, lines 55 and 68-69: generate_ai_study_plan raises (a
\* date that does not parse, a missing course field, Material.find_by_course
\* failing in the store); the handler answers 500
GeneratePlanGenerateRaises(r) ==
    /\ reqs[r].op = "generate" /\ reqs[r].pc = "generate"
    /\ reqs' = [reqs EXCEPT ![r].pc = "done", ![r].status = 500]
    /\ UNCHANGED <<tasks, sched, pdf, split, plan, extr>>

\* generate_plan, lines 56-65: one StudyTask.create of the loop
GeneratePlanCreate(r) ==
    /\ reqs[r].op = "generate" /\ reqs[r].pc = "insert"
    /\ reqs[r].i <= Len(reqs[r].new_tasks)
    /\ tasks' = tasks \cup {CreateTask(r, reqs[r].i, reqs[r].new_tasks[reqs[r].i])}
    /\ reqs' = [reqs EXCEPT ![r].i = @ + 1]
    /\ UNCHANGED <<sched, pdf, split, plan, extr>>

\* generate_plan, lines 58 and 68-69: insert_one raises; the handler answers 500
GeneratePlanCreateRaises(r) ==
    /\ reqs[r].op = "generate" /\ reqs[r].pc = "insert"
    /\ reqs[r].i <= Len(reqs[r].new_tasks)
    /\ reqs' = [reqs EXCEPT ![r].pc = "done", ![r].status = 500]
    /\ UNCHANGED <<tasks, sched, pdf, split, plan, extr>>

\* generate_plan, line 67: the loop is over, 201
GeneratePlanReturn(r) ==
    /\ reqs[r].op = "generate" /\ reqs[r].pc = "insert"
    /\ reqs[r].i > Len(reqs[r].new_tasks)
    /\ reqs' = [reqs EXCEPT ![r].pc = "done", ![r].status = 201]
    /\ UNCHANGED <<tasks, sched, pdf, split, plan, extr>>

\* get_plan, lines 20-22: Course.find_by_id, 404 when not found
GetPlanFindCourse(r, course_id, user_id) ==
    /\ IF CourseFound(course_id, user_id)
       THEN Arrive(r, "get", course_id, user_id, "find", 0)
       ELSE Arrive(r, "get", course_id, user_id, "done", 404)
    /\ UNCHANGED <<tasks, sched, pdf, split, plan, extr>>

\* the generate_plan requests for a course that have deleted its tasks and
\* not answered yet
Replacing(course_id) ==
    {q \in Requests : /\ reqs[q].op = "generate" /\ reqs[q].course_id = course_id
                      /\ reqs[q].pc \in {"generate", "insert"}}

\* get_plan, lines 24-36: StudyTask.find_by_course, 200 with what it found
GetPlanFindTasks(r) ==
    /\ reqs[r].op = "get" /\ reqs[r].pc = "find"
    /\ reqs' = [reqs EXCEPT ![r].pc = "done", ![r].status = 200,
                            ![r].body = FindByCourse(tasks, reqs[r].course_id),
                            ![r].during = Replacing(reqs[r].course_id)]
    /\ UNCHANGED <<tasks, sched, pdf, split, plan, extr>>

Init ==
    /\ tasks = {}
    /\ reqs = [r \in Requests |-> IdleRequest]
    /\ sched = SchedIdle
    /\ pdf = PdfIdle
    /\ split = SplitIdle
    /\ plan = PlanIdle
    /\ extr = ExtrIdle

Next ==
    \/ \E r \in Requests, c \in CourseIds, u \in Users : GeneratePlanFindCourse(r, c, u)
    \/ \E r \in Requests : GeneratePlanDelete(r)
    \/ \E r \in Requests : GeneratePlanGenerate(r)
    \/ \E r \in Requests : GeneratePlanGenerateRaises(r)
    \/ \E r \in Requests : GeneratePlanCreate(r)
    \/ \E r \in Requests : GeneratePlanCreateRaises(r)
    \/ \E r \in Requests : GeneratePlanReturn(r)
    \/ \E r \in Requests, c \in CourseIds, u \in Users : GetPlanFindCourse(r, c, u)
    \/ \E r \in Requests : GetPlanFindTasks(r)

Spec == Init /\ [][Next]_vars

(***************************************************************************)
(* Properties of plan generation (checked under Spec).                     *)
(***************************************************************************)

\* the documents a generate_plan request stores when all its inserts are done
NewSet(r) ==
    LET new_tasks == GenerateAiStudyPlan(reqs[r].course_id)
    IN  {CreateTask(r, k, new_tasks[k]) : k \in 1..Len(new_tasks)}

Answered(r, op, status) ==
    reqs[r].op = op /\ reqs[r].pc = "done" /\ reqs[r].status = status

\* no request was in flight together with r and none has arrived since
RanAlone(r) ==
    /\ reqs[r].conc = {}
    /\ \A q \in Requests : q > r => reqs[q].pc = "idle"

\* C1: a get_plan that reads a course's tasks while a generate_plan is
\* replacing them is answered with the complete previous set (the one the
\* replacement deleted) or with the complete new set, never with a part.
C1_ReaderSeesOldOrNewSet ==
    \A g \in Requests :
        Answered(g, "get", 200)
            => \A r \in reqs[g].during :
                  reqs[g].body = reqs[r].deleted \/ reqs[g].body = NewSet(r)

\* C2: a generate_plan that fails (answers 500) leaves the course's stored
\* tasks exactly as they were when it arrived.
C2_FailedRequestChangesNothing ==
    \A r \in Requests :
        (Answered(r, "generate", 500) /\ RanAlone(r))
            => FindByCourse(tasks, reqs[r].course_id) = reqs[r].before

\* C3: once two concurrent generate_plan requests for one course have both
\* answered 201 (no third request generating for it), the course's stored
\* tasks are the output of exactly one of the two.
C3_LastWriteWins ==
    \A r1, r2 \in Requests :
        ( /\ r1 # r2
          /\ Answered(r1, "generate", 201) /\ Answered(r2, "generate", 201)
          /\ reqs[r1].course_id = reqs[r2].course_id
          /\ r2 \in reqs[r1].conc
          /\ \A q \in Requests \ {r1, r2} :
                ~(reqs[q].op = "generate" /\ reqs[q].course_id = reqs[r1].course_id
                    /\ reqs[q].status # 404 /\ reqs[q].pc # "idle") )
            => \/ FindByCourse(tasks, reqs[r1].course_id) = NewSet(r1)
               \/ FindByCourse(tasks, reqs[r1].course_id) = NewSet(r2)

\* C4: when a generate_plan that ran with no concurrent request has
\* answered 201, the course's stored tasks are exactly the newly generated
\* ones, one document per generated session, each with completed = false,
\* and no task the course had before is left.
C4_ReplaceContract ==
    \A r \in Requests :
        (Answered(r, "generate", 201) /\ RanAlone(r))
            => LET stored == FindByCourse(tasks, reqs[r].course_id)
               IN  /\ stored = {CreateTask(r, k, reqs[r].new_tasks[k]) : k \in 1..Len(reqs[r].new_tasks)}
                   /\ Cardinality(stored) = Len(reqs[r].new_tasks)
                   /\ \A t \in stored : ~t.completed
                   /\ stored \cap reqs[r].before = {}

\* a second generation for a course, run alone, has replaced the two tasks
\* of the first
C4_Witness ==
    \E r \in Requests :
        /\ Answered(r, "generate", 201) /\ RanAlone(r)
        /\ Cardinality(reqs[r].before) = 2
        /\ Cardinality(FindByCourse(tasks, reqs[r].course_id)) = 2
        /\ FindByCourse(tasks, reqs[r].course_id) # reqs[r].before

(***************************************************************************)
(* The document structure analyzer (pdf_analyzer.py).  A page is its       *)
(* 1-based number and the header the three patterns find in its first ten  *)
(* lines, if any.                                                          *)
(***************************************************************************)
NoHeader == <<>>

\* the header text found on page k
HeaderOn(k) == <<k>>

\* current_section is None
NoSection == <<>>

MakeSection(title, page_numbers, start_default, end_default) ==
    [title |-> title,
     startPage |-> IF page_numbers # <<>> THEN page_numbers[1] ELSE start_default,
     endPage |-> IF page_numbers # <<>> THEN page_numbers[Len(page_numbers)] ELSE end_default,
     pageNumbers |-> page_numbers]

\* the page loop of extract_sections followed by "Add final section"
RECURSIVE ExtractLoop(_, _, _, _, _)
ExtractLoop(pages_content, k, sections, current_section, current_pages) ==
    IF k > Len(pages_content)
    THEN IF current_section # NoSection
         THEN Append(sections, MakeSection(current_section, current_pages, 1,
                                           pages_content[Len(pages_content)].page))
         ELSE sections
    ELSE LET page_num == pages_content[k].page
             header == pages_content[k].header
         IN  IF header # NoHeader /\ current_section # NoSection
             THEN ExtractLoop(pages_content, k + 1,
                              Append(sections, MakeSection(current_section, current_pages, page_num, page_num)),
                              header, <<page_num>>)
             ELSE IF header # NoHeader
             THEN ExtractLoop(pages_content, k + 1, sections, header, <<page_num>>)
             ELSE ExtractLoop(pages_content, k + 1, sections, current_section,
                              IF page_num \notin SeqToSet(current_pages)
                              THEN Append(current_pages, page_num) ELSE current_pages)

\* extract_sections
ExtractSections(pages_content) == ExtractLoop(pages_content, 1, <<>>, NoSection, <<>>)

\* chunk_size: int = 5
ChunkSize == 5

\* create_page_based_chunks: for i in range(0, len(pages_content), chunk_size)
RECURSIVE CreatePageBasedChunks(_, _)
CreatePageBasedChunks(pages_content, i) ==
    IF i >= Len(pages_content) THEN <<>>
    ELSE LET chunk_pages == SubSeq(pages_content, i + 1, Min(i + ChunkSize, Len(pages_content)))
             page_nums == [j \in 1..Len(chunk_pages) |-> chunk_pages[j].page]
         IN  <<[title |-> <<SetMin(SeqToSet(page_nums)), SetMax(SeqToSet(page_nums))>>,
                startPage |-> SetMin(SeqToSet(page_nums)),
                endPage |-> SetMax(SeqToSet(page_nums)),
                pageNumbers |-> page_nums]>>
             \o CreatePageBasedChunks(pages_content, i + ChunkSize)

\* the analyzer without the page-based chunks
AnalyzeWithoutPageChunks(pages_content) == ExtractSections(pages_content)

\* the sections analyze_pdf_structure returns: extract_sections, or the
\* page-based chunks when it finds none
AnalyzePdfStructure(pages_content) ==
    LET sections == ExtractSections(pages_content)
    IN  IF sections = <<>> THEN CreatePageBasedChunks(pages_content, 0) ELSE sections

\* for page_num, page in enumerate(reader.pages, start=1)
PageInputs ==
    UNION {{[k \in 1..n |-> [page |-> k, header |-> IF h[k] THEN HeaderOn(k) ELSE NoHeader]] :
               h \in [1..n -> BOOLEAN]} : n \in 0..MaxPages}

PdfInit ==
    /\ pdf \in {[pc |-> "read", pages_content |-> pc, sections |-> <<>>] : pc \in PageInputs}
    /\ tasks = {}
    /\ reqs = [r \in Requests |-> IdleRequest]
    /\ sched = SchedIdle
    /\ split = SplitIdle
    /\ plan = PlanIdle
    /\ extr = ExtrIdle

AnalyzePdf ==
    /\ pdf.pc = "read"
    /\ pdf' = [pdf EXCEPT !.pc = "analyzed", !.sections = AnalyzePdfStructure(pdf.pages_content)]
    /\ UNCHANGED <<tasks, reqs, sched, split, plan, extr>>

PdfNext == AnalyzePdf

PdfSpec == PdfInit /\ [][PdfNext]_vars

(***************************************************************************)
(* Properties of the structure analyzer (checked under PdfSpec).           *)
(***************************************************************************)
\* the page numbers of the sections, section after section
RECURSIVE SectionPages(_)
SectionPages(sections) ==
    IF sections = <<>> THEN <<>> ELSE Head(sections).pageNumbers \o SectionPages(Tail(sections))

\* C5: the sections the analyzer returns cover every page exactly once and
\* in page order: their page numbers, section after section, are 1..P.
C5_SectionsCoverEveryPageOnce ==
    pdf.pc = "analyzed"
        => SectionPages(pdf.sections) = [k \in 1..Len(pdf.pages_content) |-> k]


\* no page of the document carries a detectable header
NoHeaders == \A k \in 1..Len(pdf.pages_content) : pdf.pages_content[k].header = NoHeader

\* C19: for a document without any detectable header the analyzer returns
\* ceil(P / 5) sections, section j holding the consecutive pages
\* 5(j-1)+1 .. min(5j, P): runs of 5 pages, only the last one shorter, and
\* no section for no page.
C19_FixedSizeChunksWithoutHeaders ==
    (pdf.pc = "analyzed" /\ NoHeaders)
        => LET P == Len(pdf.pages_content)
           IN  /\ Len(pdf.sections) = (P + ChunkSize - 1) \div ChunkSize
               /\ \A j \in 1..Len(pdf.sections) :
                     pdf.sections[j].pageNumbers
                        = [i \in 1..(Min(ChunkSize * j, P) - ChunkSize * (j - 1)) |->
                              ChunkSize * (j - 1) + i]

\* 12 pages without a header, analyzed into runs of 5, 5 and 2 pages
C19_Witness ==
    /\ pdf.pc = "analyzed"
    /\ NoHeaders
    /\ Len(pdf.pages_content) = 12
    /\ Len(pdf.sections) = 3
    /\ Len(pdf.sections[1].pageNumbers) = 5
    /\ Len(pdf.sections[2].pageNumbers) = 5
    /\ Len(pdf.sections[3].pageNumbers) = 2


(***************************************************************************)
(* Properties of the schedulers (checked under SchedSpec).                 *)
(***************************************************************************)
SchedDone == sched.pc \in {"planner", "ai"}

StrictlyAscending(s) == \A i \in 1..(Len(s) - 1) : s[i] < s[i + 1]

\* C6: whatever start, end, count >= 1 and optional exam date are, both
\* schedulers return a strictly ascending sequence of dates (hence without
\* duplicates) of length at most count.
C6_AscendingDistinctAtMostCount ==
    SchedDone => /\ StrictlyAscending(sched.dates)
                 /\ Len(sched.dates) <= sched.in.num_sessions

\* a planner call whose gap-filling appended a midpoint and that returned
\* exactly count dates
C6_Witness ==
    /\ sched.pc = "planner"
    /\ sched.in.num_sessions > 4
    /\ sched.in.exam_date # NoDate
    /\ Len(sched.dates) = sched.in.num_sessions
    /\ Len(sched.dates) > Len(AiCalculateSessionDates(sched.in.start, sched.in.end,
                                                      sched.in.num_sessions, sched.in.exam_date))

\* the calls the plan assemblers make: count is the banded session count
\* of the window
BandedCall == sched.in.num_sessions = NumSessions((sched.in.end - sched.in.start) + 1)

\* C7: when start <= end, every returned date lies in [start, end], also
\* when the exam date lies outside the window (stated for the calls the
\* plan assemblers make).
C7_DatesInsideWindow ==
    (SchedDone /\ sched.in.start <= sched.in.end /\ BandedCall)
        => \A i \in 1..Len(sched.dates) :
              sched.in.start <= sched.dates[i] /\ sched.dates[i] <= sched.in.end

\* C8: under the exam-aware policy (exam date present, count > 4) every
\* date the prep phase contributes is strictly earlier than the exam date.
C8_PrepDatesBeforeExam ==
    (SchedDone /\ ExamAware(sched.in.num_sessions, sched.in.exam_date))
        => \A d \in sched.prep : d < DateOf(sched.in.exam_date)

\* an exam-aware call whose prep phase contributed returned dates, the last
\* of them on the eve of the exam
C8_Witness ==
    /\ SchedDone
    /\ ExamAware(sched.in.num_sessions, sched.in.exam_date)
    /\ Cardinality(sched.prep) >= 2
    /\ sched.prep \subseteq SeqToSet(sched.dates)
    /\ DateOf(sched.in.exam_date) - 1 \in sched.prep

\* C9: a window with start = end yields exactly [start], for every count
\* and every exam date, present or absent.
C9_SingleDayWindow ==
    (SchedDone /\ sched.in.start = sched.in.end) => sched.dates = <<sched.in.start>>

\* a one-day window scheduled with count > 4 and an exam date after the window
C9_Witness ==
    /\ SchedDone
    /\ sched.in.start = sched.in.end
    /\ sched.in.num_sessions > 4
    /\ sched.in.exam_date # NoDate
    /\ DateOf(sched.in.exam_date) > sched.in.end
    /\ sched.dates = <<sched.in.start>>

\* C10: when end > start, exactly count dates are returned (stated for the
\* calls the plan assemblers make, whose count never exceeds the number of
\* days of the window).
C10_ExactlyCountDates ==
    (SchedDone /\ sched.in.end > sched.in.start /\ BandedCall)
        => Len(sched.dates) = sched.in.num_sessions


(***************************************************************************)
(* The content partitioner (services/pdf_analyzer.py,                      *)
(* split_content_for_study).  A section carries its title, its page        *)
(* numbers and the number of words of its content,                         *)
(* len(section.get("content", "").split()).                                *)
(***************************************************************************)
MaxSections == 4
MaxWords == 3

\* the empty chunk the loop starts from and restarts from
EmptyChunk == [sections |-> <<>>, pages |-> <<>>, totalWords |-> 0, title |-> <<>>]

\* the title given to a chunk when it is finalized: the title of its only
\* section, or "<first title> & More"
ChunkTitle(chunk) ==
    IF Len(chunk.sections) = 1
    THEN <<chunk.sections[1].title>>
    ELSE <<chunk.sections[1].title, "& More">>

\* total_size = sum(len(s.get("content", "").split()) for s in sections)
RECURSIVE TotalSize(_)
TotalSize(sections) ==
    IF sections = <<>> THEN 0 ELSE Head(sections).words + TotalSize(Tail(sections))

\* the test that finalizes the current chunk, without its session limit
FinalizeIgnoringLimit(current_chunk, section_size, total_size, num_sessions, study_chunks) ==
    /\ 2 * num_sessions * (current_chunk.totalWords + section_size) > 3 * total_size
    /\ current_chunk.sections # <<>>

\* the test that finalizes the current chunk, without the size of the
\* section about to be added
FinalizeWithoutIncoming(current_chunk, section_size, total_size, num_sessions, study_chunks) ==
    /\ 2 * num_sessions * current_chunk.totalWords > 3 * total_size
    /\ current_chunk.sections # <<>>
    /\ Len(study_chunks) < num_sessions - 1

\* current_chunk["totalWords"] + section_size > target_size_per_session * 1.5
\* and current_chunk["sections"] and len(study_chunks) < num_sessions - 1,
\* with target_size_per_session = total_size / num_sessions
FinalizeChunk(current_chunk, section_size, total_size, num_sessions, study_chunks) ==
    /\ 2 * num_sessions * (current_chunk.totalWords + section_size) > 3 * total_size
    /\ current_chunk.sections # <<>>
    /\ Len(study_chunks) < num_sessions - 1

\* a chunk that keeps only the section just added
AddSectionReplacing(current_chunk, section) ==
    [current_chunk EXCEPT
        !.sections = <<section>>,
        !.pages = SortedSeq(SeqToSet(current_chunk.pages) \cup SeqToSet(section.pageNumbers)),
        !.totalWords = current_chunk.totalWords + section.words]

\* "Add section to current chunk"
AddSection(current_chunk, section) ==
    [current_chunk EXCEPT
        !.sections = Append(current_chunk.sections, section),
        !.pages = SortedSeq(SeqToSet(current_chunk.pages) \cup SeqToSet(section.pageNumbers)),
        !.totalWords = current_chunk.totalWords + section.words]

\* for section in sections: ..., followed by "Add final chunk"
RECURSIVE SplitLoop(_, _, _, _, _, _)
SplitLoop(sections, k, num_sessions, total_size, study_chunks, current_chunk) ==
    IF k > Len(sections)
    THEN IF current_chunk.sections # <<>>
         THEN Append(study_chunks, [current_chunk EXCEPT !.title = ChunkTitle(current_chunk)])
         ELSE study_chunks
    ELSE LET section == sections[k]
         IN  IF FinalizeChunk(current_chunk, section.words, total_size, num_sessions, study_chunks)
             THEN SplitLoop(sections, k + 1, num_sessions, total_size,
                            Append(study_chunks,
                                   [current_chunk EXCEPT !.title = ChunkTitle(current_chunk)]),
                            AddSection(EmptyChunk, section))
             ELSE SplitLoop(sections, k + 1, num_sessions, total_size, study_chunks,
                            AddSection(current_chunk, section))

\* split_content_for_study(sections, num_sessions), num_sessions >= 1
SplitContentForStudy(sections, num_sessions) ==
    IF sections = <<>> THEN <<>>
    ELSE SplitLoop(sections, 1, num_sessions, TotalSize(sections), <<>>, EmptyChunk)

\* section sequences: section k has title k, page k and any number of words
SectionInputs ==
    UNION {{[k \in 1..n |-> [title |-> k, pageNumbers |-> <<k>>, words |-> w[k]]] :
               w \in [1..n -> 0..MaxWords]} : n \in 0..MaxSections}

SplitInit ==
    /\ split \in {[pc |-> "call", sections |-> ss, num_sessions |-> n, chunks |-> <<>>] :
                     ss \in SectionInputs, n \in 1..MaxCount}
    /\ tasks = {}
    /\ reqs = [r \in Requests |-> IdleRequest]
    /\ sched = SchedIdle
    /\ pdf = PdfIdle
    /\ plan = PlanIdle
    /\ extr = ExtrIdle

SplitContent ==
    /\ split.pc = "call"
    /\ split' = [split EXCEPT !.pc = "done",
                              !.chunks = SplitContentForStudy(split.sections, split.num_sessions)]
    /\ UNCHANGED <<tasks, reqs, sched, pdf, plan, extr>>

SplitNext == SplitContent

SplitSpec == SplitInit /\ [][SplitNext]_vars

(***************************************************************************)
(* Properties of the content partitioner (checked under SplitSpec).        *)
(***************************************************************************)
\* C11: for every section sequence and every target count N >= 1 the
\* partitioner returns at most N chunks, and no chunk for no section.
C11_AtMostNChunks ==
    split.pc = "done"
        => /\ Len(split.chunks) <= split.num_sessions
           /\ (split.sections = <<>> => split.chunks = <<>>)

\* a call that returned exactly N >= 2 chunks and whose last chunk was kept
\* open by the session limit although it passed 1.5 times the target
C11_Witness ==
    /\ split.pc = "done"
    /\ split.num_sessions >= 2
    /\ Len(split.chunks) = split.num_sessions
    /\ Len(split.chunks[Len(split.chunks)].sections) >= 2
    /\ 2 * split.num_sessions * split.chunks[Len(split.chunks)].totalWords
          > 3 * TotalSize(split.sections)

\* the sections of the chunks, chunk after chunk
RECURSIVE ChunkSections(_)
ChunkSections(chunks) ==
    IF chunks = <<>> THEN <<>> ELSE Head(chunks).sections \o ChunkSections(Tail(chunks))

\* C12: the sections of the returned chunks, concatenated in chunk order,
\* are exactly the input section sequence: nothing dropped, duplicated,
\* split or reordered.
C12_ChunksReproduceSections ==
    split.pc = "done" => ChunkSections(split.chunks) = split.sections

\* a call that returned several chunks, one of them holding several sections
C12_Witness ==
    /\ split.pc = "done"
    /\ Len(split.chunks) >= 2
    /\ \E c \in 1..Len(split.chunks) : Len(split.chunks[c].sections) >= 2
    /\ Len(split.sections) = MaxSections


(***************************************************************************)
(* The plan assemblers: generate_ai_study_plan (services/ai_planner.py,    *)
(* with services/llm_service.py) and generate_study_tasks_for_course       *)
(* (services/planner.py).  A call either returns its tasks or raises.      *)
(* Titles and descriptions are tuples naming the text the code builds.     *)
(***************************************************************************)
MaxMaterials == 2
MaxLlmLen == 2

Returned(new_tasks) == [error |-> "none", tasks |-> new_tasks]

Raised(error) == [error |-> error, tasks |-> <<>>]

\* metadata_json of a material: None, a text json.loads rejects, or the
\* dumped structure of analyze_pdf_structure with its sections
NoMetadata == [parses |-> FALSE, present |-> FALSE, sections |-> <<>>]

UnparsableMetadata == [parses |-> FALSE, present |-> TRUE, sections |-> <<>>]

ParsedMetadata(sections) == [parses |-> TRUE, present |-> TRUE, sections |-> sections]

\* what the chat completion of generate_study_plan_with_ai does: it raises
\* (no API key, timeout, API error), or it answers with a text; the text is
\* not JSON, or JSON that is not a list, or a JSON list of entries.  An
\* entry is "valid" (an object with title and description), "empty" (an
\* object without them) or "malformed" (not an object: a string, null)
LlmRaises == [outcome |-> "raises", entries |-> <<>>]

LlmNotJson == [outcome |-> "not json", entries |-> <<>>]

LlmNotList == [outcome |-> "not a list", entries |-> <<>>]

LlmList(entries) == [outcome |-> "list", entries |-> entries]

EntryKinds == {"valid", "empty", "malformed"}

\* generate_study_plan_with_ai: sessions[:num_sessions] of a JSON list, []
\* for everything else (every exception is caught)
GenerateStudyPlanWithAi(llm, num_sessions) ==
    IF llm.outcome = "list" THEN Take(llm.entries, num_sessions) ELSE <<>>

\* extract_topics_with_ai on the raw_text of material k: [] for a text
\* shorter than 100 characters and when the completion raises, else the
\* parsed lines of the answer (here one topic, named after the material)
ExtractTopicsWithAiOf(materials, k, llm) ==
    IF materials[k].raw_text = "long" /\ llm.outcome # "raises" THEN <<k>> ELSE <<>>

\* all_topics after the material loop of generate_ai_study_plan
RECURSIVE AiAllTopics(_, _, _)
AiAllTopics(materials, k, llm) ==
    IF k > Len(materials) THEN <<>>
    ELSE (IF materials[k].raw_text # "" THEN ExtractTopicsWithAiOf(materials, k, llm) ELSE <<>>)
         \o AiAllTopics(materials, k + 1, llm)

\* all_sections after the material loop: the sections of every material
\* whose metadata_json parses (a failing json.loads is caught and skipped)
RECURSIVE AllSections(_, _)
AllSections(materials, k) ==
    IF k > Len(materials) THEN <<>>
    ELSE (IF materials[k].metadata_json.present /\ materials[k].metadata_json.parses
          THEN materials[k].metadata_json.sections ELSE <<>>)
         \o AllSections(materials, k + 1)

\* _generate_fallback_plan: title and description of session i (0-based)
FallbackText(i, topics) ==
    IF i = 0 THEN [title |-> <<"Course Overview & Initial Review">>,
                   description |-> <<"Review course syllabus">>]
    ELSE IF i < Len(topics)
    THEN [title |-> <<"Study:", topics[i + 1]>>, description |-> <<"Study and take notes on:", topics[i + 1]>>]
    ELSE [title |-> <<"Review Session", i + 1>>, description |-> <<"Review course materials">>]

\* _generate_fallback_plan
GenerateFallbackPlan(course, session_dates, topics) ==
    [k \in 1..Len(session_dates) |->
        [course_id |-> course.id, date |-> session_dates[k],
         title |-> FallbackText(k - 1, topics).title,
         description |-> FallbackText(k - 1, topics).description,
         completed |-> FALSE]]

\* title and description of session i (0-based) in the loop that combines
\* the LLM sessions with the dates (ai_planner.py, lines 97-105)
AiSessionText(i, ai_sessions) ==
    IF i < Len(ai_sessions)
    THEN [title |-> IF ai_sessions[i + 1] = "valid" THEN <<"llm title", i>>
                    ELSE <<"Study Session", i + 1>>,
          description |-> IF ai_sessions[i + 1] = "valid" THEN <<"llm description", i>>
                          ELSE <<"Study course materials">>]
    ELSE [title |-> <<"Study Session", i + 1>>,
          description |-> <<"Review course materials and practice key concepts">>]

\* "Enhance with section/page info if available" (lines 108-113)
WithPages(i, all_sections, description) ==
    IF i < Len(all_sections) /\ all_sections[i + 1].pageNumbers # <<>>
    THEN <<"Pages", SetMin(SeqToSet(all_sections[i + 1].pageNumbers)),
           SetMax(SeqToSet(all_sections[i + 1].pageNumbers))>> \o description
    ELSE description

\* the loop of lines 96-121 raises at the first entry that is not an object
\* (ai_session.get): some entry among the first len(session_dates) is malformed
CombineRaises(session_dates, ai_sessions) ==
    \E i \in 1..Min(Len(session_dates), Len(ai_sessions)) : ai_sessions[i] = "malformed"

\* the exception of the loop, left uncaught
CombineFailureUncaught(course, session_dates, all_topics) == Raised("AttributeError")

\* except Exception (lines 124-127): the fallback plan over the same dates
CombineFailure(course, session_dates, all_topics) ==
    Returned(GenerateFallbackPlan(course, session_dates, all_topics))

\* the normalized window of generate_ai_study_plan: end = start when
\* term_end is earlier than term_start
AiEnd(course) == IF course.term_end < course.term_start THEN course.term_start ELSE course.term_end

TotalDays(start, end) == IF (end - start) + 1 <= 0 THEN 1 ELSE (end - start) + 1

\* session_dates of generate_ai_study_plan (line 83)
AiSessionDates(course) ==
    AiCalculateSessionDates(course.term_start, AiEnd(course),
                            NumSessions(TotalDays(course.term_start, AiEnd(course))),
                            course.main_exam_date)

\* generate_ai_study_plan(course), with the materials Material.find_by_course
\* returns and the behaviour of the LLM
GenerateAiStudyPlanWith(course, materials, llm) ==
    LET all_topics == AiAllTopics(materials, 1, llm)
        all_sections == AllSections(materials, 1)
        num_sessions == NumSessions(TotalDays(course.term_start, AiEnd(course)))
        session_dates == AiSessionDates(course)
        ai_sessions == GenerateStudyPlanWithAi(llm, num_sessions)
    IN  IF CombineRaises(session_dates, ai_sessions)
        THEN CombineFailure(course, session_dates, all_topics)
        ELSE Returned([k \in 1..Len(session_dates) |->
                          [course_id |-> course.id, date |-> session_dates[k],
                           title |-> AiSessionText(k - 1, ai_sessions).title,
                           description |-> WithPages(k - 1, all_sections,
                                                     AiSessionText(k - 1, ai_sessions).description),
                           completed |-> FALSE]])


\* titles that test for exam preparation before they test for position 0
PlannerTitleExamFirst(i, n, session_date, exam_date, content_chunks, unique_topics) ==
    LET is_near_exam == exam_date # NoDate /\ DateOf(exam_date) - session_date <= 7
        has_chunk == content_chunks # <<>> /\ i < Len(content_chunks)
    IN  IF is_near_exam /\ 10 * (i + 1) > 7 * n
        THEN (IF i = n - 2 THEN <<"Final Review & Practice">>
              ELSE IF i = n - 1 THEN <<"Final Exam Preparation">>
              ELSE <<"Exam Prep Session">>)
        ELSE IF i = 0 THEN <<"Course Overview & Initial Review">>
        ELSE IF has_chunk THEN content_chunks[i + 1].title
        ELSE IF i < Len(unique_topics) THEN <<"Study:", unique_topics[i + 1]>>
        ELSE <<"Review Session", i + 1>>

\* the title generate_study_tasks_for_course gives session i (0-based) of n
\* (lines 106-134): the first archetype that matches
PlannerTitle(i, n, session_date, exam_date, content_chunks, unique_topics) ==
    LET is_near_exam == exam_date # NoDate /\ DateOf(exam_date) - session_date <= 7
        has_chunk == content_chunks # <<>> /\ i < Len(content_chunks)
    IN  IF i = 0 THEN <<"Course Overview & Initial Review">>
        ELSE IF is_near_exam /\ 10 * (i + 1) > 7 * n
        THEN (IF i = n - 2 THEN <<"Final Review & Practice">>
              ELSE IF i = n - 1 THEN <<"Final Exam Preparation">>
              ELSE <<"Exam Prep Session">>)
        ELSE IF has_chunk THEN content_chunks[i + 1].title
        ELSE IF i < Len(unique_topics) THEN <<"Study:", unique_topics[i + 1]>>
        ELSE <<"Review Session", i + 1>>

\* content chunks asked for one per section
ContentChunksPerSection(total_days, all_sections) ==
    IF all_sections # <<>>
    THEN SplitContentForStudy(all_sections, Len(all_sections))
    ELSE <<>>

\* content_chunks (lines 68-83): the sections split for the banded count
\* of sessions, None (here <<>>) without sections
ContentChunks(total_days, all_sections) ==
    IF all_sections # <<>>
    THEN SplitContentForStudy(all_sections, NumSessions(total_days))
    ELSE <<>>

\* num_sessions (lines 85-98): the number of content chunks when there are
\* any, else the banded count
RequestedSessions(total_days, content_chunks) ==
    LET num_sessions == IF content_chunks # <<>> THEN Len(content_chunks)
                        ELSE NumSessions(total_days)
    IN  IF num_sessions <= 0 THEN 1 ELSE num_sessions

\* generate_study_tasks_for_course from line 68 on: the session count, the
\* dates and the tasks, given the topics and sections of the material loop
AssembleStudyTasks(course, start, end, unique_topics, all_sections) ==
    LET total_days == TotalDays(start, end)
        content_chunks == ContentChunks(total_days, all_sections)
        num_sessions == RequestedSessions(total_days, content_chunks)
        session_dates == PlannerCalculateSessionDates(start, end, num_sessions, course.main_exam_date)
    IN  [k \in 1..Len(session_dates) |->
            [course_id |-> course.id, date |-> session_dates[k],
             title |-> PlannerTitle(k - 1, Len(session_dates), session_dates[k],
                                    course.main_exam_date, content_chunks, unique_topics),
             completed |-> FALSE]]

\* generate_study_tasks_for_course(course), with the materials
\* Material.find_by_course returns.  Line 24 reads course.term_end and
\* extract_topics_from_material reads material.raw_text; course and
\* material are dicts, so both reads raise AttributeError
GenerateStudyTasksForCourse(course, materials) ==
    IF course.term_end < course.term_start THEN Raised("AttributeError")
    ELSE IF materials # <<>> THEN Raised("AttributeError")
    ELSE Returned(AssembleStudyTasks(course, course.term_start, course.term_end, <<>>, <<>>))

\* the courses of the calls: terms that are inverted, of one day and of up
\* to MaxStart + MaxSpan days, without an exam date or with the exam on the
\* last day of the term
PlanCourses ==
    UNION {{[id |-> "c1", term_start |-> MaxStart, term_end |-> e, main_exam_date |-> x] :
               x \in {NoDate, SomeDate(e)}} : e \in 0..(MaxStart + MaxSpan)}

\* the sections in the metadata_json of material k
MaterialSections(k) == <<[title |-> k, pageNumbers |-> <<1, 2>>, words |-> 2]>>

\* the documents of materials_collection for the course.  upload_material
\* stores an empty raw_text when the PDF cannot be read (and then no
\* sections), and else the text with the analyzer's structure; a
\* metadata_json that json.loads rejects stands for a damaged document
MaterialKinds == {"unreadable", "text", "damaged", "structured"}

MaterialOfKind(k, kind) ==
    [id |-> k,
     raw_text |-> IF kind = "unreadable" THEN "" ELSE "long",
     metadata_json |-> IF kind = "structured" THEN ParsedMetadata(MaterialSections(k))
                       ELSE IF kind = "damaged" THEN UnparsableMetadata
                       ELSE NoMetadata]

MaterialInputs ==
    UNION {{[k \in 1..n |-> MaterialOfKind(k, kinds[k])] : kinds \in [1..n -> MaterialKinds]} :
           n \in 0..MaxMaterials}

LlmInputs ==
    {LlmRaises, LlmNotJson, LlmNotList}
        \cup UNION {{LlmList(es) : es \in [1..n -> EntryKinds]} : n \in 0..MaxLlmLen}

PlanInit ==
    /\ plan \in {[pc |-> "call", course |-> c, materials |-> ms, llm |-> l, result |-> Returned(<<>>)] :
                    c \in PlanCourses, ms \in MaterialInputs, l \in LlmInputs}
    /\ tasks = {}
    /\ reqs = [r \in Requests |-> IdleRequest]
    /\ sched = SchedIdle
    /\ pdf = PdfIdle
    /\ split = SplitIdle
    /\ extr = ExtrIdle

CallGenerateAiStudyPlan ==
    /\ plan.pc = "call"
    /\ plan' = [plan EXCEPT !.pc = "ai",
                            !.result = GenerateAiStudyPlanWith(plan.course, plan.materials, plan.llm)]
    /\ UNCHANGED <<tasks, reqs, sched, pdf, split, extr>>

CallGenerateStudyTasksForCourse ==
    /\ plan.pc = "call"
    /\ plan' = [plan EXCEPT !.pc = "heuristic",
                            !.result = GenerateStudyTasksForCourse(plan.course, plan.materials)]
    /\ UNCHANGED <<tasks, reqs, sched, pdf, split, extr>>

PlanNext == CallGenerateAiStudyPlan \/ CallGenerateStudyTasksForCourse

PlanSpec == PlanInit /\ [][PlanNext]_vars

(***************************************************************************)
(* Properties of the plan assemblers (checked under PlanSpec).             *)
(***************************************************************************)
PlanDone == plan.pc \in {"ai", "heuristic"}

TaskDates(new_tasks) == [k \in 1..Len(new_tasks) |-> new_tasks[k].date]

\* C13: whatever the LLM does (raises, answers no JSON, no list, an empty
\* or short list, a list with malformed entries), generate_ai_study_plan
\* returns, with one session per scheduled date, in the scheduled order.
C13_LlmNeverAbortsPlan ==
    plan.pc = "ai"
        => /\ plan.result.error = "none"
           /\ TaskDates(plan.result.tasks) = AiSessionDates(plan.course)

\* a call whose LLM list holds an entry that is not an object at a position
\* the loop reads, over at least two scheduled dates
C13_Witness ==
    /\ plan.pc = "ai"
    /\ Len(AiSessionDates(plan.course)) >= 2
    /\ plan.llm.outcome = "list"
    /\ Len(plan.llm.entries) >= 2
    /\ plan.llm.entries[2] = "malformed"

\* C14: a position whose LLM entry is valid keeps its LLM title and
\* description, whatever the entries of the other positions are.
C14_ValidEntriesKeepLlmText ==
    plan.pc = "ai"
        => \A k \in 1..Len(plan.result.tasks) :
              (k <= Len(GenerateStudyPlanWithAi(plan.llm, Len(plan.result.tasks)))
               /\ plan.llm.entries[k] = "valid")
                  => /\ plan.result.tasks[k].title = <<"llm title", k - 1>>
                     /\ plan.result.tasks[k].description
                            = WithPages(k - 1, AllSections(plan.materials, 1), <<"llm description", k - 1>>)

\* C15: for the same course and materials, when both assemblers return,
\* they return the same dates in the same order (hence the same number of
\* sessions).
C15_BothPathsSameDates ==
    (PlanDone
     /\ GenerateAiStudyPlanWith(plan.course, plan.materials, plan.llm).error = "none"
     /\ GenerateStudyTasksForCourse(plan.course, plan.materials).error = "none")
        => TaskDates(GenerateAiStudyPlanWith(plan.course, plan.materials, plan.llm).tasks)
              = TaskDates(GenerateStudyTasksForCourse(plan.course, plan.materials).tasks)

\* C16: for a term of zero length or inverted, either assembler returns, with
\* at least one session, every session dated inside the window with its
\* endpoints in order.
C16_DegenerateWindowNormalized ==
    (PlanDone /\ plan.course.term_end <= plan.course.term_start)
        => /\ plan.result.error = "none"
           /\ Len(plan.result.tasks) >= 1
           /\ \A k \in 1..Len(plan.result.tasks) :
                 /\ plan.course.term_end <= plan.result.tasks[k].date
                 /\ plan.result.tasks[k].date <= plan.course.term_start

\* C17: when a material has unparsable metadata_json or an empty raw_text,
\* the assemblers still return a plan (the term being in order).
C17_DegradedMaterialNeverFailsPlan ==
    (PlanDone
     /\ plan.course.term_start <= plan.course.term_end
     /\ \E k \in 1..Len(plan.materials) :
           \/ plan.materials[k].raw_text = ""
           \/ plan.materials[k].metadata_json = UnparsableMetadata)
        => /\ plan.result.error = "none"
           /\ Len(plan.result.tasks) >= 1


(***************************************************************************)
(* Topic and key-term extraction (services/topic_extractor.py,             *)
(* services/llm_service.py).  A text is a sequence of lines joined by      *)
(* newlines; a line is one of four kinds:                                  *)
(*   "numbered"  "1. Introduction to Calculus"   matches the numbered      *)
(*               section pattern of the topic extractors                   *)
(*   "terms"     "Linear Algebra basics"         holds a run of            *)
(*               capitalized words, the key-term pattern                   *)
(*   "plain"     "the quick brown fox jumps over the lazy dog"             *)
(*   "blank"     an empty line                                             *)
(***************************************************************************)
MaxLines == 3

LineKinds == {"numbered", "terms", "plain", "blank"}

\* len(line)
LineLength(line) ==
    IF line = "numbered" THEN 27 ELSE IF line = "terms" THEN 21 ELSE IF line = "plain" THEN 43 ELSE 0

\* text.strip() drops the blank lines at both ends
RECURSIVE StripLeft(_)
StripLeft(text) ==
    IF text # <<>> /\ Head(text) = "blank" THEN StripLeft(Tail(text)) ELSE text

RECURSIVE StripRight(_)
StripRight(text) ==
    IF text # <<>> /\ text[Len(text)] = "blank" THEN StripRight(SubSeq(text, 1, Len(text) - 1)) ELSE text

RECURSIVE JoinedLength(_)
JoinedLength(text) ==
    IF text = <<>> THEN 0
    ELSE IF Len(text) = 1 THEN LineLength(text[1])
    ELSE LineLength(Head(text)) + 1 + JoinedLength(Tail(text))

\* len(text.strip())
StrippedLength(text) == JoinedLength(StripRight(StripLeft(text)))

\* "if not raw_text": the text is the empty string
IsEmptyText(text) == JoinedLength(text) = 0

\* len(pdf_text.strip()) < 100
MinTextLength == 100

Extracted(items) == [error |-> "none", items |-> items]

ExtractionRaised(error) == [error |-> error, items |-> <<>>]

\* extract_topics_from_material(material): line 14 reads material.raw_text,
\* and a material is a dict
ExtractTopicsFromMaterial(text) == ExtractionRaised("AttributeError")

\* re.finditer(term_pattern, text), then "Remove duplicates": the distinct
\* terms in the order of their first match
MatchedTerms(text) ==
    IF \E k \in 1..Len(text) : text[k] = "terms" THEN <<"Linear Algebra">> ELSE <<>>

\* extract_key_terms(material): [] when raw_text is empty, else the
\* distinct terms matched in the text, at most 20
ExtractKeyTerms(text) ==
    IF IsEmptyText(text) THEN Extracted(<<>>) ELSE Extracted(Take(MatchedTerms(text), 20))

\* the lines of the LLM's answer that extract_topics_with_ai keeps: one per
\* numbered line of the text
RECURSIVE AnsweredTopics(_)
AnsweredTopics(text) ==
    IF text = <<>> THEN <<>>
    ELSE (IF Head(text) = "numbered" THEN <<"Introduction to Calculus">> ELSE <<>>)
         \o AnsweredTopics(Tail(text))

\* extract_topics_with_ai(pdf_text): [] for an empty text and for a text of
\* stripped length below 100; [] when the completion raises; else the
\* first 20 topics parsed from the answer
ExtractTopicsWithAi(text, llm_ok) ==
    IF IsEmptyText(text) \/ StrippedLength(text) < MinTextLength THEN Extracted(<<>>)
    ELSE IF ~llm_ok THEN Extracted(<<>>)
    ELSE Extracted(Take(AnsweredTopics(text), 20))

TextInputs == UNION {[1..n -> LineKinds] : n \in 0..MaxLines}

ExtrInit ==
    /\ extr \in {[pc |-> "call", text |-> t, llm_ok |-> ok, result |-> Extracted(<<>>)] :
                    t \in TextInputs, ok \in BOOLEAN}
    /\ tasks = {}
    /\ reqs = [r \in Requests |-> IdleRequest]
    /\ sched = SchedIdle
    /\ pdf = PdfIdle
    /\ split = SplitIdle
    /\ plan = PlanIdle

CallExtractTopicsFromMaterial ==
    /\ extr.pc = "call"
    /\ extr' = [extr EXCEPT !.pc = "topics", !.result = ExtractTopicsFromMaterial(extr.text)]
    /\ UNCHANGED <<tasks, reqs, sched, pdf, split, plan>>

CallExtractKeyTerms ==
    /\ extr.pc = "call"
    /\ extr' = [extr EXCEPT !.pc = "key terms", !.result = ExtractKeyTerms(extr.text)]
    /\ UNCHANGED <<tasks, reqs, sched, pdf, split, plan>>

CallExtractTopicsWithAi ==
    /\ extr.pc = "call"
    /\ extr' = [extr EXCEPT !.pc = "ai topics", !.result = ExtractTopicsWithAi(extr.text, extr.llm_ok)]
    /\ UNCHANGED <<tasks, reqs, sched, pdf, split, plan>>

ExtrNext ==
    \/ CallExtractTopicsFromMaterial
    \/ CallExtractKeyTerms
    \/ CallExtractTopicsWithAi

ExtrSpec == ExtrInit /\ [][ExtrNext]_vars

(***************************************************************************)
(* Properties of the extractors (checked under ExtrSpec).                  *)
(***************************************************************************)
\* C18: for a text whose stripped length is below 100 characters, the
\* empty text included, key-term extraction returns the empty sequence
\* without error (stated for extract_key_terms, which reads the material
\* as a dict).
C18_ShortTextYieldsNothing ==
    (extr.pc = "key terms" /\ StrippedLength(extr.text) < MinTextLength)
        => extr.result = Extracted(<<>>)


(***************************************************************************)
(* The scheduler on the term 2024-01-01..2024-03-01 (checked under         *)
(* SchedSpec).                                                             *)
(***************************************************************************)
\* C20: for the window 2024-01-01..2024-03-01 with the exam on 2024-02-25
\* and count 10, the scheduler returns exactly 10 strictly ascending
\* dates, and the last 3 of them lie in the 14 days before the exam date,
\* strictly before it.
C20_ScenarioTenDatesLastThreeInPrep ==
    (SchedDone /\ sched.in = ScenarioCall)
        => /\ Len(sched.dates) = 10
           /\ StrictlyAscending(sched.dates)
           /\ \A i \in 8..10 :
                 /\ sched.dates[i] >= DateOf(ScenarioCall.exam_date) - ExamPrepWindow
                 /\ sched.dates[i] < DateOf(ScenarioCall.exam_date)

\* the planner's scheduler has answered the scenario's call, its last date
\* being the eve of the exam
C20_Witness ==
    /\ sched.pc = "planner"
    /\ sched.in = ScenarioCall
    /\ Len(sched.dates) = 10
    /\ sched.dates[10] = DateOf(ScenarioCall.exam_date) - 1


(***************************************************************************)
(* Further properties of the schedulers (checked under SchedSpec).         *)
(***************************************************************************)
\* an exam-aware call on a window of more than one day whose exam date
\* lies inside the window
ExamAwareInsideWindow ==
    /\ ExamAware(sched.in.num_sessions, sched.in.exam_date)
    /\ sched.in.start < DateOf(sched.in.exam_date)
    /\ DateOf(sched.in.exam_date) <= sched.in.end

\* the later of (last early date + 3 days) and (exam_date - 14 days)
StatedPrepStart ==
    LET early == EarlyPhase(sched.in.start, sched.in.end, sched.in.num_sessions,
                            DateOf(sched.in.exam_date))
    IN  IF early # <<>>
        THEN Max(early[Len(early)] + 3, DateOf(sched.in.exam_date) - ExamPrepWindow)
        ELSE DateOf(sched.in.exam_date) - ExamPrepWindow

\* C21: in the exam-aware policy, whenever the interval from the later of
\* (last early date + 3 days) and (exam_date - 14 days) to the eve of the
\* exam is not empty, the returned schedule holds a date inside it.
C21_PrepIntervalHoldsADate ==
    (SchedDone /\ ExamAwareInsideWindow /\ BandedCall
     /\ StatedPrepStart <= DateOf(sched.in.exam_date) - 1)
        => \E i \in 1..Len(sched.dates) :
              /\ StatedPrepStart <= sched.dates[i]
              /\ sched.dates[i] <= DateOf(sched.in.exam_date) - 1

\* C22: whenever the planner's scheduler returns fewer than count dates on
\* a window of more than one day, no two adjacent returned dates are more
\* than 2 days apart.
C22_NoGapLeftWhenShort ==
    (sched.pc = "planner" /\ sched.in.start < sched.in.end /\ BandedCall
     /\ Len(sched.dates) < sched.in.num_sessions)
        => \A i \in 1..(Len(sched.dates) - 1) : sched.dates[i + 1] - sched.dates[i] <= 2

\* C23: under the exponential policy the gap between consecutive returned
\* dates never increases from one adjacent pair to the next.
C23_GapsNeverIncrease ==
    (SchedDone /\ ~ExamAware(sched.in.num_sessions, sched.in.exam_date)
     /\ sched.in.start < sched.in.end /\ BandedCall)
        => \A i \in 1..(Len(sched.dates) - 2) :
              sched.dates[i + 2] - sched.dates[i + 1] <= sched.dates[i + 1] - sched.dates[i]

\* the dates the policy chose, before gap-filling
ChosenDates ==
    SeqToSet(PolicyDates(sched.in.start, sched.in.end, sched.in.num_sessions, sched.in.exam_date))

\* C28: in the exam-aware policy with start < exam_date <= end, every date
\* the planner's scheduler returns, the midpoints of gap-filling included,
\* is earlier than the exam date, and the earliest and the latest returned
\* date are the earliest and the latest date the policy chose.
C28_GapFillStaysBeforeExam ==
    (sched.pc = "planner" /\ ExamAwareInsideWindow)
        => /\ \A i \in 1..Len(sched.dates) : sched.dates[i] < DateOf(sched.in.exam_date)
           /\ sched.dates[1] = SetMin(ChosenDates)
           /\ sched.dates[Len(sched.dates)] = SetMax(ChosenDates)

\* an exam-aware planner call, exam inside the window, to which gap-filling
\* added a midpoint after the last but one chosen date
C28_Witness ==
    /\ sched.pc = "planner"
    /\ ExamAwareInsideWindow
    /\ Len(sched.dates) > Cardinality(ChosenDates)
    /\ sched.dates[Len(sched.dates) - 1] \notin ChosenDates


(***************************************************************************)
(* The session count and the session titles of                             *)
(* generate_study_tasks_for_course (services/planner.py, lines 68-145),    *)
(* applied to the topics and sections its material loop hands over, and    *)
(* the session count of generate_ai_study_plan (services/ai_planner.py,    *)
(* lines 69-83).  Terms start on day 0 and reach into every band of the    *)
(* session count.                                                          *)
(***************************************************************************)
MaxTermEnd == 62
MaxExamBack == 8
MaxUniqueTopics == 2

\* the courses: terms of 1 to MaxTermEnd + 1 days, without an exam date or
\* with the exam on one of the last days of the term
AssembleCourses ==
    UNION {{[id |-> "c1", term_start |-> 0, term_end |-> e, main_exam_date |-> x] :
               x \in {NoDate} \cup {SomeDate(d) : d \in Max(0, e - MaxExamBack)..e}} :
           e \in 0..MaxTermEnd}

\* unique_topics after line 66: topics 1..m
TopicLists == {[k \in 1..m |-> k] : m \in 0..MaxUniqueTopics}

\* all_sections after the material loop: sections of one word each
SectionLists ==
    {[k \in 1..n |-> [title |-> k, pageNumbers |-> <<k>>, words |-> 1]] : n \in 0..MaxSections}

AssembleInit ==
    /\ plan \in {[pc |-> "call", course |-> c, unique_topics |-> ts, all_sections |-> ss,
                  content_chunks |-> <<>>, num_sessions |-> 0, result |-> Returned(<<>>)] :
                    c \in AssembleCourses, ts \in TopicLists, ss \in SectionLists}
    /\ tasks = {}
    /\ reqs = [r \in Requests |-> IdleRequest]
    /\ sched = SchedIdle
    /\ pdf = PdfIdle
    /\ split = SplitIdle
    /\ extr = ExtrIdle

\* generate_study_tasks_for_course, lines 68-145
AssembleTasks ==
    /\ plan.pc = "call"
    /\ LET total_days == TotalDays(plan.course.term_start, plan.course.term_end)
           content_chunks == ContentChunks(total_days, plan.all_sections)
       IN  plan' = [plan EXCEPT
                       !.pc = "assembled",
                       !.content_chunks = content_chunks,
                       !.num_sessions = RequestedSessions(total_days, content_chunks),
                       !.result = Returned(AssembleStudyTasks(plan.course, plan.course.term_start,
                                                              plan.course.term_end,
                                                              plan.unique_topics, plan.all_sections))]
    /\ UNCHANGED <<tasks, reqs, sched, pdf, split, extr>>

\* generate_ai_study_plan, lines 69-83: the banded count and the dates
BandAiSessions ==
    /\ plan.pc = "call"
    /\ plan' = [plan EXCEPT
                   !.pc = "banded",
                   !.num_sessions = NumSessions(TotalDays(plan.course.term_start, AiEnd(plan.course))),
                   !.result = Returned([k \in 1..Len(AiSessionDates(plan.course)) |->
                                           [course_id |-> plan.course.id,
                                            date |-> AiSessionDates(plan.course)[k]]])]
    /\ UNCHANGED <<tasks, reqs, sched, pdf, split, extr>>

AssembleNext == AssembleTasks \/ BandAiSessions

AssembleSpec == AssembleInit /\ [][AssembleNext]_vars

(***************************************************************************)
(* Properties of the session count and the titles (checked under           *)
(* AssembleSpec).                                                          *)
(***************************************************************************)

\* C24: every task of generate_study_tasks_for_course carries the title of
\* the first archetype that matches its 0-based position i of n: the
\* overview at i = 0 (also when the exam is within 7 days); else, with the
\* exam at most 7 days after the date and (i+1)/n > 0.7, exam preparation
\* ("Final Review & Practice" at i = n-2, "Final Exam Preparation" at
\* i = n-1, "Exam Prep Session" otherwise); else the content chunk at i;
\* else the topic at i; else a review session.
C24_FirstMatchingArchetype ==
    plan.pc = "assembled"
        => LET new_tasks == plan.result.tasks
               n == Len(new_tasks)
               exam == plan.course.main_exam_date
           IN  \A k \in 1..n :
                   LET i == k - 1
                       title == new_tasks[k].title
                       exam_prep == /\ exam # NoDate
                                    /\ DateOf(exam) - new_tasks[k].date <= 7
                                    /\ 10 * (i + 1) > 7 * n
                       chunk == i < Len(plan.content_chunks)
                       topic == i < Len(plan.unique_topics)
                   IN  /\ i = 0 => title = <<"Course Overview & Initial Review">>
                       /\ (i > 0 /\ exam_prep /\ i = n - 2) => title = <<"Final Review & Practice">>
                       /\ (i > 0 /\ exam_prep /\ i = n - 1) => title = <<"Final Exam Preparation">>
                       /\ (i > 0 /\ exam_prep /\ i < n - 2) => title = <<"Exam Prep Session">>
                       /\ (i > 0 /\ ~exam_prep /\ chunk) => title = plan.content_chunks[k].title
                       /\ (i > 0 /\ ~exam_prep /\ ~chunk /\ topic)
                              => title = <<"Study:", plan.unique_topics[k]>>
                       /\ (i > 0 /\ ~exam_prep /\ ~chunk /\ ~topic)
                              => title = <<"Review Session", i + 1>>

\* a plan whose first session is the overview although the exam is within
\* 7 days of it, followed by a content session and closed by the two final
\* exam sessions
C24_Witness ==
    /\ plan.pc = "assembled"
    /\ plan.course.main_exam_date # NoDate
    /\ Len(plan.content_chunks) >= 2
    /\ LET new_tasks == plan.result.tasks
           n == Len(new_tasks)
       IN  /\ n >= 4
           /\ DateOf(plan.course.main_exam_date) - new_tasks[1].date <= 7
           /\ new_tasks[1].title = <<"Course Overview & Initial Review">>
           /\ new_tasks[2].title = plan.content_chunks[2].title
           /\ new_tasks[n - 1].title = <<"Final Review & Practice">>
           /\ new_tasks[n].title = <<"Final Exam Preparation">>

\* the band value of a term of T days
BandValue(T) ==
    IF T <= 7 THEN Min(3, T)
    ELSE IF T <= 30 THEN Min(8, T \div 3)
    ELSE IF T <= 60 THEN Min(12, T \div 5)
    ELSE Min(16, T \div 7)

\* the length in days of the term of the call
TermDays == (plan.course.term_end - plan.course.term_start) + 1

\* C25: the session count requested from the scheduler, by either
\* assembler, is at least 1 and at most the band value B(T) of the term;
\* without material sections it is max(1, B(T)).
C25_RequestedCountWithinBand ==
    plan.pc \in {"assembled", "banded"}
        => /\ 1 <= plan.num_sessions
           /\ plan.num_sessions <= BandValue(TermDays)
           /\ plan.all_sections = <<>> => plan.num_sessions = Max(1, BandValue(TermDays))

\* sections that made fewer chunks than the band value, and as many
\* sessions were requested as there are chunks
C25_Witness ==
    /\ plan.pc = "assembled"
    /\ plan.all_sections # <<>>
    /\ plan.num_sessions = Len(plan.content_chunks)
    /\ plan.num_sessions >= 2
    /\ plan.num_sessions < BandValue(TermDays)

\* the band of a term of T days
Band(T) == IF T <= 7 THEN 1 ELSE IF T <= 30 THEN 2 ELSE IF T <= 60 THEN 3 ELSE 4

\* the call computed the banded count: generate_ai_study_plan always, and
\* generate_study_tasks_for_course without content chunks
CountIsBanded == plan.pc = "banded" \/ (plan.pc = "assembled" /\ plan.content_chunks = <<>>)

\* C29 as stated: the banded count of a term is at least the banded count
\* of every shorter term.
C29_CountNeverDecreases ==
    CountIsBanded => \A T1 \in 1..TermDays : NumSessions(T1) <= plan.num_sessions

\* C29: the banded count of a term is at least the banded count of every
\* shorter term of the same band (at most 7 days, 8 to 30, 31 to 60, more
\* than 60).
C29_CountNeverDecreasesWithinBand ==
    CountIsBanded
        => \A T1 \in 1..TermDays :
               Band(T1) = Band(TermDays) => NumSessions(T1) <= plan.num_sessions

\* a term past the first band whose count is larger than that of a shorter
\* term of its band
C29_Witness ==
    /\ CountIsBanded
    /\ Band(TermDays) > 1
    /\ \E T1 \in 1..TermDays : Band(T1) = Band(TermDays) /\ NumSessions(T1) < plan.num_sessions


(***************************************************************************)
(* A further property of the content partitioner (checked under SplitSpec).*)
(***************************************************************************)

\* C27: with target = total_words / N, every returned chunk holds at least
\* one section, and every chunk other than the N-th that holds more than
\* one section has a cumulative word count of at most 1.5 x target.
C27_ChunksBalanced ==
    split.pc = "done"
        => \A j \in 1..Len(split.chunks) :
               /\ split.chunks[j].sections # <<>>
               /\ (j # split.num_sessions /\ Len(split.chunks[j].sections) > 1)
                      => 2 * split.num_sessions * TotalSize(split.chunks[j].sections)
                             <= 3 * TotalSize(split.sections)

\* a split with a chunk of several sections before the N-th and with a
\* chunk of one section that is larger than 1.5 x target
C27_Witness ==
    /\ split.pc = "done"
    /\ \E j \in 1..Len(split.chunks) :
           /\ j # split.num_sessions
           /\ Len(split.chunks[j].sections) > 1
           /\ TotalSize(split.chunks[j].sections) > 0
    /\ \E j \in 1..Len(split.chunks) :
           /\ Len(split.chunks[j].sections) = 1
           /\ 2 * split.num_sessions * TotalSize(split.chunks[j].sections)
                  > 3 * TotalSize(split.sections)


(***************************************************************************)
(* The selection of topics in extract_topics_from_material                 *)
(* (services/topic_extractor.py, lines 57-71), applied to the candidates   *)
(* the three patterns matched (lines 19-55) in a material whose raw_text   *)
(* attribute can be read.  A candidate is a text in one of its spellings.  *)
(***************************************************************************)
MaxCandidates == 21
MaxShort == 3

TopicForms == {"Title", "lower"}

\* topic.lower()
Lower(topic) == [topic EXCEPT !.form = "lower"]

\* the loop of lines 58-64: a candidate is kept unless its lowercase was seen
RECURSIVE UniqueTopicsLoop(_, _, _, _)
UniqueTopicsLoop(topics, k, seen, unique_topics) ==
    IF k > Len(topics) THEN unique_topics
    ELSE IF Lower(topics[k]) \notin seen
         THEN UniqueTopicsLoop(topics, k + 1, seen \cup {Lower(topics[k])},
                               Append(unique_topics, topics[k]))
         ELSE UniqueTopicsLoop(topics, k + 1, seen, unique_topics)

UniqueTopics(topics) == UniqueTopicsLoop(topics, 1, {}, <<>>)

\* xs[first::step], first 0-based
SliceFrom(xs, first, step) ==
    IF Len(xs) <= first THEN <<>>
    ELSE [j \in 1..(((Len(xs) - first) + step - 1) \div step) |-> xs[first + 1 + (j - 1) * step]]

\* a sampling that keeps every entry the stride reaches
SampleTopicsUncapped(unique_topics) ==
    IF Len(unique_topics) > 15
    THEN Take(unique_topics, 5) \o SliceFrom(unique_topics, 5, Len(unique_topics) \div 10)
    ELSE unique_topics

\* lines 67-69: unique_topics[:5] + unique_topics[5::len(unique_topics)//10][:10]
\* when there are more than 15 unique topics
SampleTopics(unique_topics) ==
    IF Len(unique_topics) > 15
    THEN Take(unique_topics, 5)
            \o Take(SliceFrom(unique_topics, 5, Len(unique_topics) \div 10), 10)
    ELSE unique_topics

\* lines 57-71
SelectTopics(topics) == SampleTopics(UniqueTopics(topics))

\* candidate lists: n candidates that run through p texts again and again,
\* in alternating spellings, and every short list over two texts
CandidateInputs ==
    {[k \in 1..n |-> [text |-> ((k - 1) % p) + 1,
                      form |-> IF ((k - 1) \div p) % 2 = 0 THEN "Title" ELSE "lower"]] :
         n \in 0..MaxCandidates, p \in 1..MaxCandidates}
    \cup UNION {[1..n -> [text : 1..2, form : TopicForms]] : n \in 0..MaxShort}

TopicInit ==
    /\ extr \in {[pc |-> "matched", topics |-> c, result |-> <<>>] : c \in CandidateInputs}
    /\ tasks = {}
    /\ reqs = [r \in Requests |-> IdleRequest]
    /\ sched = SchedIdle
    /\ pdf = PdfIdle
    /\ split = SplitIdle
    /\ plan = PlanIdle

\* extract_topics_from_material, lines 57-71
ReturnTopics ==
    /\ extr.pc = "matched"
    /\ extr' = [extr EXCEPT !.pc = "returned", !.result = SelectTopics(extr.topics)]
    /\ UNCHANGED <<tasks, reqs, sched, pdf, split, plan>>

TopicNext == ReturnTopics

TopicSpec == TopicInit /\ [][TopicNext]_vars

(***************************************************************************)
(* Properties of the topic selection (checked under TopicSpec).            *)
(***************************************************************************)

\* r can be had from c by leaving entries out
RECURSIVE IsSubsequence(_, _)
IsSubsequence(r, c) ==
    IF r = <<>> THEN TRUE
    ELSE IF c = <<>> THEN FALSE
    ELSE IF Head(r) = Head(c) THEN IsSubsequence(Tail(r), Tail(c))
    ELSE IsSubsequence(r, Tail(c))

\* the candidates that no earlier candidate equals ignoring case, in order
FirstOccurrences(c) ==
    LET firsts == {k \in 1..Len(c) : \A j \in 1..(k - 1) : Lower(c[j]) # Lower(c[k])}
    IN  [i \in 1..Cardinality(firsts) |-> c[SortedSeq(firsts)[i]]]

\* C26: the returned topics are an order-preserving subsequence of the
\* matched candidates, no two of them equal ignoring case, and at most 15;
\* when more than 15 unique candidates survive, the result is the first 5
\* of them followed by at most 10 taken at a fixed stride from the rest.
C26_TopicsDistinctCappedSampled ==
    extr.pc = "returned"
        => LET r == extr.result
               u == FirstOccurrences(extr.topics)
           IN  /\ IsSubsequence(r, extr.topics)
               /\ \A i, j \in 1..Len(r) : i # j => Lower(r[i]) # Lower(r[j])
               /\ Len(r) <= 15
               /\ Len(u) > 15
                      => /\ Len(r) >= 5 /\ Len(r) - 5 <= 10
                         /\ SubSeq(r, 1, 5) = SubSeq(u, 1, 5)
                         /\ \E step \in 1..Len(u) :
                                \A j \in 1..(Len(r) - 5) :
                                    /\ 5 + 1 + (j - 1) * step <= Len(u)
                                    /\ r[5 + j] = u[5 + 1 + (j - 1) * step]

\* twenty unique candidates and a repeated one: the repeat is dropped and
\* the rest is sampled at a stride of two
C26_Witness ==
    /\ extr.pc = "returned"
    /\ Len(FirstOccurrences(extr.topics)) >= 20
    /\ Len(extr.topics) > Len(FirstOccurrences(extr.topics))
    /\ Len(extr.result) > 5
    /\ Len(extr.result) < 15
    /\ extr.result[7] # FirstOccurrences(extr.topics)[7]


(***************************************************************************)
(* The frame of generate_plan (checked under Spec).                        *)
(***************************************************************************)

\* the step is taken by request r
StepOf(r) == reqs'[r] # reqs[r] /\ (reqs[r].pc = "idle" \/ reqs'[r].pc # reqs[r].pc \/ reqs'[r].i # reqs[r].i)

\* C30: a step changes the stored tasks of a course only when it is a step
\* of a generate_plan request for that course whose course was found for
\* the caller; the tasks of every other course stay as they are, and the
\* step that rejects a request with 404 "Course not found" changes no task.
C30_OnlyOwnCourseChanges ==
    [][ /\ \A c \in CourseIds :
               FindByCourse(tasks', c) # FindByCourse(tasks, c)
                   => \E r \in Requests :
                          /\ StepOf(r)
                          /\ reqs[r].op = "generate"
                          /\ reqs[r].course_id = c
                          /\ CourseFound(c, reqs[r].user_id)
        /\ \A r \in Requests :
               (reqs[r].pc = "idle" /\ reqs'[r].status = 404) => tasks' = tasks
      ]_vars

\* two generate_plan requests for different courses have both answered
\* 201, and each course holds exactly the tasks of its own request
C30_Witness ==
    \E r1, r2 \in Requests :
        /\ Answered(r1, "generate", 201) /\ Answered(r2, "generate", 201)
        /\ reqs[r1].course_id # reqs[r2].course_id
        /\ FindByCourse(tasks, reqs[r1].course_id) = NewSet(r1)
        /\ FindByCourse(tasks, reqs[r2].course_id) = NewSet(r2)
        /\ NewSet(r1) # {} /\ NewSet(r2) # {}

====
